---- MODULE Spec2Model ----
(***************************************************************************)
(* Contribution dashboard (js/data-loader.js): the DataLoader, the         *)
(* DOMContentLoaded handler that fills the metric cards, and the           *)
(* ChartUpdater refresh cycle.                                             *)
(*                                                                         *)
(* JavaScript values are tagged records: null is [kind |-> "null"], an     *)
(* array is [kind |-> "array", items |-> <<...>>], an object carries its   *)
(* fields.  Non-integer numbers (means, percentages, densities) are exact  *)
(* fractions [num, den] with den > 0.                                      *)
(***************************************************************************)
EXTENDS Integers, Sequences, FiniteSets, TLC

VARIABLES
    files,                  \* the data/ directory served to the page: file name -> JSON body
    request,                \* one DataLoader call: idle, pending or settled
    loaderPc,               \* DOMContentLoaded handler of the DataLoader
    loaderFetch,            \* its four fetches (Promise.all)
    updaterPc,              \* ChartUpdater.initialize
    updaterFetch,           \* the seven fetches of loadAllData
    data,                   \* ChartUpdater.data
    cards,                  \* the five metric cards of .summary-grid
    panelsLoading,          \* the panels carry the 'loading' class
    errorShown,             \* showErrorState has written its message
    charts,                 \* the series the page's charts show
    agents,                 \* loaded agent_activity dataset (or null)
    dailyContributions,     \* loaded daily_contributions dataset (or null)
    topics,                 \* loaded topic_evolution dataset (or null)
    collaborationNetwork,   \* loaded collaboration_network dataset (or null)
    applied,                \* which computation has been applied to the datasets
    result                  \* what it returned

pageVars == <<loaderPc, loaderFetch, updaterPc, updaterFetch, data, cards,
              panelsLoading, errorShown, charts>>

metricVars == <<agents, dailyContributions, topics, collaborationNetwork, applied, result>>

vars == <<files, request, pageVars, metricVars>>

----------------------------------------------------------------------------
(* JavaScript values *)

Null == [kind |-> "null"]

Undefined == [kind |-> "undefined"]

Arr(s) == [kind |-> "array", items |-> s]

IsArray(v) == v.kind = "array"

Rat(n, d) == [num |-> n, den |-> d]

Zero == Rat(0, 1)

RatEq(a, b) == a.num * b.den = b.num * a.den

RatLeq(a, b) == a.num * b.den <= b.num * a.den

Min(a, b) == IF a < b THEN a ELSE b

Max(a, b) == IF a > b THEN a ELSE b

\* Array.prototype.slice(start, end) with JavaScript's negative indices
Slice(s, start, end) ==
    LET len == Len(s)
        k == IF start < 0 THEN Max(len + start, 0) ELSE Min(start, len)
        final == IF end < 0 THEN Max(len + end, 0) ELSE Min(end, len)
    IN  IF final > k THEN SubSeq(s, k + 1, final) ELSE <<>>

\* slice(start): up to the end of the array
SliceFrom(s, start) == Slice(s, start, Len(s))

----------------------------------------------------------------------------
(* DataLoader.calculateSummaryMetrics *)

RECURSIVE ReduceTotal(_, _, _)
ReduceTotal(items, i, sum) ==
    IF i > Len(items) THEN sum
    ELSE ReduceTotal(items, i + 1, sum + items[i].total)

TotalContributionsNoSeed(daily) ==
    IF Len(daily.items) = 0 THEN 0
    ELSE ReduceTotal(daily.items, 2, 0)

\* dailyContributions.reduce((sum, day) => sum + day.total, 0)
TotalContributions(daily) == ReduceTotal(daily.items, 1, 0)

ActiveAgents(agentList) == Len(agentList.items)

AssumedMaxWeight == 20

DensityApplies(net) ==
    /\ net.kind = "object"
    /\ IsArray(net.edges)
    /\ Len(net.edges.items) > 0

NodesFromData(net) == IF IsArray(net.nodes) THEN net.nodes.items ELSE <<>>

\* node.id of a null node and edge.weight of a null edge raise a TypeError
DensityThrows(net) ==
    /\ DensityApplies(net)
    /\ \/ \E i \in DOMAIN NodesFromData(net) : NodesFromData(net)[i].kind = "null"
       \/ \E i \in DOMAIN net.edges.items : net.edges.items[i].kind = "null"

NodeIdsDeclaredOnly(net) ==
    {NodesFromData(net)[i].id : i \in DOMAIN NodesFromData(net)} \ {""}

\* the Set of truthy node ids, then the truthy endpoints of every edge
NodeIds(net) ==
    LET nodes == NodesFromData(net)
        edges == net.edges.items
        real == {i \in DOMAIN edges : edges[i].kind # "null"}
    IN  ({nodes[i].id : i \in DOMAIN nodes} \ {""})
        \cup ({edges[i].source : i \in real} \ {""})
        \cup ({edges[i].target : i \in real} \ {""})

MaxPossibleEdges(nodeCount) ==
    IF nodeCount > 1 THEN (nodeCount * (nodeCount - 1)) \div 2 ELSE 0

RECURSIVE ReduceWeight(_, _, _)
ReduceWeight(edges, i, sum) ==
    IF i > Len(edges) THEN sum
    ELSE ReduceWeight(edges, i + 1,
            sum + (IF edges[i].wtype = "number" THEN edges[i].weight ELSE 0))

TotalEdgeWeight(net) == ReduceWeight(net.edges.items, 1, 0)

CollaborationDensity(net) ==
    IF ~DensityApplies(net) THEN Zero
    ELSE LET maxPossibleEdges == MaxPossibleEdges(Cardinality(NodeIds(net)))
         IN  IF maxPossibleEdges > 0
             THEN Rat(TotalEdgeWeight(net), maxPossibleEdges * AssumedMaxWeight)
             ELSE Zero

\* new Date(period_end): days since the epoch, or an Invalid Date
DateParse(s) ==
    CASE s = "2024-01-07" -> [kind |-> "date", valid |-> TRUE, time |-> 19729]
      [] s = "2024-01-14" -> [kind |-> "date", valid |-> TRUE, time |-> 19736]
      [] s = "2024-01-14T00:00:00.000Z" -> [kind |-> "date", valid |-> TRUE, time |-> 19736]
      [] s = "2024-01-21" -> [kind |-> "date", valid |-> TRUE, time |-> 19743]
      [] OTHER -> [kind |-> "date", valid |-> FALSE, time |-> 0]

\* entry?.period_end ? new Date(entry.period_end) : null
EndDate(entry) ==
    IF entry.kind = "null" \/ entry.period_end = "" THEN Null
    ELSE DateParse(entry.period_end)

IsValidEntry(entry) ==
    /\ EndDate(entry).kind = "date"
    /\ EndDate(entry).valid
    /\ entry.vtype = "number"

ValidEntries(topicList) == SelectSeq(topicList.items, IsValidEntry)

RECURSIVE ReduceLatest(_, _, _)
ReduceLatest(entries, i, latest) ==
    IF i > Len(entries) THEN latest
    ELSE ReduceLatest(entries, i + 1,
            IF EndDate(entries[i]).time > latest THEN EndDate(entries[i]).time ELSE latest)

LatestEndDate(entries) == ReduceLatest(entries, 1, EndDate(entries[1]).time)

RECURSIVE ReduceTopLast(_, _, _)
ReduceTopLast(entries, i, top) ==
    IF i > Len(entries) THEN top
    ELSE ReduceTopLast(entries, i + 1,
            IF top.kind = "null" \/ entries[i].volume >= top.volume THEN entries[i] ELSE top)

RECURSIVE ReduceTop(_, _, _)
ReduceTop(entries, i, top) ==
    IF i > Len(entries) THEN top
    ELSE ReduceTop(entries, i + 1,
            IF top.kind = "null" \/ entries[i].volume > top.volume THEN entries[i] ELSE top)

TopEntryLastWins(entries) == ReduceTopLast(entries, 1, Null)

\* latestTopics.reduce((top, entry) => entry.volume > (top?.volume ?? -Infinity) ? entry : top, null)
TopEntry(entries) == ReduceTop(entries, 1, Null)

TrendingTopic(topicList) ==
    IF IsArray(topicList) /\ Len(topicList.items) > 0
    THEN LET validEntries == ValidEntries(topicList)
         IN  IF Len(validEntries) > 0
             THEN LET latestEndDate == LatestEndDate(validEntries)
                      IsLatest(entry) == EndDate(entry).time = latestEndDate
                      topEntry == TopEntry(SelectSeq(validEntries, IsLatest))
                  IN  IF topEntry.kind = "null" THEN "N/A" ELSE topEntry.topic
             ELSE "N/A"
    ELSE "N/A"

Fulfilled(v) == [settled |-> "fulfilled", value |-> v]

Rejected == [settled |-> "rejected"]

CalculateSummaryMetrics(agentList, daily, topicList, net) ==
    IF agentList.kind = "null" \/ daily.kind = "null" THEN Fulfilled(Null)
    ELSE IF DensityThrows(net) THEN Rejected
    ELSE Fulfilled([kind |-> "summary",
                    totalContributions |-> TotalContributions(daily),
                    activeAgents |-> ActiveAgents(agentList),
                    collaborationDensity |-> CollaborationDensity(net),
                    trendingTopic |-> TrendingTopic(topicList)])

----------------------------------------------------------------------------
(* Number formatting *)

Pad2(n) == IF n < 10 THEN "0" \o ToString(n) ELSE ToString(n)

Pad3(n) == IF n < 10 THEN "00" \o ToString(n)
           ELSE IF n < 100 THEN "0" \o ToString(n) ELSE ToString(n)

\* Number.prototype.toLocaleString() of a non-negative integer (en-US grouping)
RECURSIVE ToLocaleString(_)
ToLocaleString(n) ==
    IF n < 1000 THEN ToString(n)
    ELSE ToLocaleString(n \div 1000) \o "," \o Pad3(n % 1000)

\* toFixed(2) of a non-negative fraction
ToFixed2(r) ==
    LET h == (200 * r.num + r.den) \div (2 * r.den)
    IN  ToString(h \div 100) \o "." \o Pad2(h % 100)

Abs(n) == IF n < 0 THEN 0 - n ELSE n

\* toFixed(0): the sign of the unrounded value, then the magnitude rounded half up;
\* the string is kept as its sign and digits
ToFixed0(r) ==
    [kind |-> "string", neg |-> r.num < 0, mag |-> (2 * Abs(r.num) + r.den) \div (2 * r.den)]

FixedText(f) == (IF f.neg THEN "-" ELSE "") \o ToString(f.mag)

\* ToNumber of a toFixed string ("-0" converts to -0, which is equal to 0)
FixedToNumber(f) == IF f.neg THEN 0 - f.mag ELSE f.mag

\* Math.round: floor(x + 0.5); String() of the result prints -0 as "0"
MathRound(r) == (2 * r.num + r.den) \div (2 * r.den)

----------------------------------------------------------------------------
(* Weekly change, DOMContentLoaded handler of the DataLoader *)

TwoWeeks == 14

OneWeek == 7

\* days.length ? days.reduce((sum, day) => sum + (day.total || 0), 0) / days.length : 0
WeeklyAverage(days) ==
    IF Len(days) > 0 THEN Rat(ReduceTotal(days, 1, 0), Len(days)) ELSE Zero

PercentChangeUnguarded(avgLast, avgPrior) ==
    IF avgPrior.num > 0
    THEN Rat((avgLast.num * avgPrior.den - avgPrior.num * avgLast.den) * 100,
             avgPrior.num * avgLast.den)
    ELSE IF avgLast.num > 0 THEN Rat(100, 1) ELSE Zero

\* avgPrior > 0 ? ((avgLast - avgPrior) / avgPrior) * 100 : 0
PercentChange(avgLast, avgPrior) ==
    IF avgPrior.num > 0
    THEN Rat((avgLast.num * avgPrior.den - avgPrior.num * avgLast.den) * 100,
             avgPrior.num * avgLast.den)
    ELSE Zero

LoaderWeekly(daily) ==
    LET lastTwoWeeks == SliceFrom(daily.items, 0 - TwoWeeks)
        lastWeek == SliceFrom(lastTwoWeeks, 0 - OneWeek)
        priorWeek == Slice(lastTwoWeeks, 0, OneWeek)
        change == PercentChange(WeeklyAverage(lastWeek), WeeklyAverage(priorWeek))
    IN  [thisWeek |-> lastWeek,
         priorWeek |-> priorWeek,
         change |-> change,
         label |-> (IF change.num >= 0 THEN "+" ELSE "")
                    \o ToString(MathRound(change)) \o "% vs last week"]

----------------------------------------------------------------------------
(* ChartUpdater.updateSummaryMetrics *)

RECURSIVE UpdaterReduceTotal(_, _, _)
UpdaterReduceTotal(items, i, sum) ==
    IF i > Len(items) THEN sum
    ELSE UpdaterReduceTotal(items, i + 1, sum + items[i].total)

\* calculateWeeklyAverage(days)
CalculateWeeklyAverage(days) ==
    IF Len(days) = 0 THEN Zero
    ELSE Rat(UpdaterReduceTotal(days, 1, 0), Len(days))

\* avgLastWeek > 0 ? ((avgThisWeek - avgLastWeek) / avgLastWeek * 100).toFixed(0) : 0
UpdaterChange(avgThisWeek, avgLastWeek) ==
    IF avgLastWeek.num > 0
    THEN ToFixed0(Rat((avgThisWeek.num * avgLastWeek.den - avgLastWeek.num * avgThisWeek.den) * 100,
                      avgLastWeek.num * avgThisWeek.den))
    ELSE [kind |-> "number", neg |-> FALSE, mag |-> 0]

UpdaterWeekly(daily) ==
    LET lastWeek == Slice(daily.items, 0 - TwoWeeks, 0 - OneWeek)
        thisWeek == SliceFrom(daily.items, 0 - OneWeek)
        change == UpdaterChange(CalculateWeeklyAverage(thisWeek), CalculateWeeklyAverage(lastWeek))
    IN  [thisWeek |-> thisWeek,
         priorWeek |-> lastWeek,
         change |-> change,
         label |-> (IF FixedToNumber(change) >= 0 THEN "+" ELSE "")
                    \o FixedText(change) \o "% vs last week"]

DefaultTopics ==
    <<"Autonomous Ops", "Safety", "Alignment", "Data Quality", "Tooling", "UX Research">>

RECURSIVE MaxOf(_, _, _)
MaxOf(values, i, best) ==
    IF i > Len(values) THEN best
    ELSE MaxOf(values, i + 1, IF values[i] > best THEN values[i] ELSE best)

\* values.indexOf(Math.max(...values)), 1-based; 0 when the array is empty
MaxIndex(values) ==
    IF Len(values) = 0 THEN 0
    ELSE LET m == MaxOf(values, 1, values[1])
         IN  CHOOSE i \in DOMAIN values :
                 values[i] = m /\ \A j \in 1..(i - 1) : values[j] # m

UpdaterTrendingTopic(topicEvolution) ==
    IF topicEvolution.kind = "object" /\ IsArray(topicEvolution.currentWeek)
    THEN LET names == IF IsArray(topicEvolution.topics)
                      THEN topicEvolution.topics.items ELSE DefaultTopics
             maxIndex == MaxIndex(topicEvolution.currentWeek.items)
         IN  IF maxIndex \in DOMAIN names THEN names[maxIndex] ELSE "Park Cleanup"
    ELSE "Park Cleanup"

\* this.data.collaborationNetwork?.density || 0.72
UpdaterDensity(net) ==
    IF net.kind = "object" /\ net.density.kind = "number" /\ net.density.num # 0
    THEN net.density
    ELSE IF net.kind = "object" /\ net.density.kind = "string"
    THEN net.density
    ELSE [kind |-> "number", num |-> 72, den |-> 100]

\* Math.max(...values) is a TypeError when currentWeek is truthy and not iterable
CurrentWeekNotIterable(topicEvolution) ==
    /\ topicEvolution.kind = "object"
    /\ topicEvolution.currentWeek.kind \notin {"null", "array"}

\* the values updateSummaryMetrics writes, an early return, or the texts it
\* had written when it threw
UpdateSummaryMetrics(agentList, daily, topicEvolution, net) ==
    IF daily.kind = "null" \/ agentList.kind = "null" THEN [returned |-> "early"]
    ELSE IF CurrentWeekNotIterable(topicEvolution)
    THEN [returned |-> "threw", strong |-> <<>>]
    ELSE IF UpdaterDensity(net).kind # "number"
    THEN \* a string has no toFixed: the first two cards are already written
         [returned |-> "threw",
          strong |-> <<ToLocaleString(UpdaterReduceTotal(daily.items, 1, 0)),
                       ToString(Len(agentList.items))>>]
    ELSE [returned |-> "written",
          totalContributions |-> UpdaterReduceTotal(daily.items, 1, 0),
          activeAgents |-> Len(agentList.items),
          strong |-> <<ToLocaleString(UpdaterReduceTotal(daily.items, 1, 0)),
                       ToString(Len(agentList.items)),
                       ToFixed2(UpdaterDensity(net)),
                       UpdaterTrendingTopic(topicEvolution),
                       "32/32">>,
          weekly |-> UpdaterWeekly(daily),
          pagesTag |-> "Milestone achieved"]

----------------------------------------------------------------------------
(* ChartUpdater.updateCharts and its six operations.                       *)
(*                                                                         *)
(* this.data is the tuple of the seven datasets in the order loadAllData   *)
(* awaits them.  A chart is its labels and its datasets.  A string that    *)
(* the link code inspects is a sequence of chunks, cut so that a string    *)
(* beginning with the characters "http" has "http" as its first chunk and  *)
(* a scheme separator, if any, is the second chunk.                        *)

Str(chunks) == [kind |-> "string", chunks |-> chunks]

\* JavaScript truthiness of the values the chart code tests
Truthy(v) ==
    /\ v.kind \notin {"null", "undefined"}
    /\ ~(v.kind = "string" /\ v.chunks = <<>>)

Chart(labels, first, second) ==
    [kind |-> "chart", labels |-> labels, datasets |-> <<first, second>>]

\* the charts as the page created them, before any dataset is loaded
InitialCharts ==
    [overviewChart |-> Chart(Arr(<<"Mon">>), Arr(<<1>>), Arr(<<>>)),
     agentChart |-> Chart(Arr(<<"Z">>), Arr(<<1>>), Arr(<<>>)),
     networkChart |-> Chart(Arr(<<>>), Arr(<<[x |-> 1, y |-> 1, r |-> 1]>>), Arr(<<>>)),
     topicChart |-> Chart(Arr(<<"Topic">>), Arr(<<1>>), Arr(<<2>>)),
     trendChart |-> Chart(Arr(<<"Dec">>), Arr(<<1>>), Arr(<<2>>)),
     timeline |-> Undefined]

Returned(chs) == [charts |-> chs, threw |-> FALSE]

Threw(chs) == [charts |-> chs, threw |-> TRUE]

LastDays == 7

\* toLocaleDateString('en-US', {weekday: 'short'}); day 1 is a Monday
WeekdayShort(date) ==
    <<"Mon", "Tue", "Wed", "Thu", "Fri", "Sat", "Sun">>[((date + 6) % 7) + 1]

UpdateOverviewChart(chs, d) ==
    IF ~Truthy(d[1]) THEN Returned(chs)
    ELSE LET last7Days == SliceFrom(d[1].items, 0 - LastDays)
         IN  Returned([chs EXCEPT
                 !.overviewChart.labels =
                     Arr([i \in DOMAIN last7Days |-> WeekdayShort(last7Days[i].date)]),
                 !.overviewChart.datasets[1] =
                     Arr([i \in DOMAIN last7Days |-> last7Days[i].total])])

TopAgents == 5

\* the mutation: an element is placed ahead of the elements it ties with
InsertBeforeTies(sorted, a) ==
    LET k == Cardinality({i \in DOMAIN sorted : sorted[i].total > a.total})
    IN  SubSeq(sorted, 1, k) \o <<a>> \o SubSeq(sorted, k + 1, Len(sorted))

\* where a stable sort by (a, b) => b.total - a.total leaves the next element:
\* behind every element already placed whose total is not smaller
InsertByTotal(sorted, a) ==
    LET k == Cardinality({i \in DOMAIN sorted : sorted[i].total >= a.total})
    IN  SubSeq(sorted, 1, k) \o <<a>> \o SubSeq(sorted, k + 1, Len(sorted))

RECURSIVE SortByTotal(_, _, _)
SortByTotal(items, i, sorted) ==
    IF i > Len(items) THEN sorted
    ELSE SortByTotal(items, i + 1, InsertByTotal(sorted, items[i]))

\* [...this.data.agentActivity].sort(...).slice(0, 5): the copy is sorted, the
\* loaded array is the second component
SortedAgents(agentActivity) ==
    [sortedAgents |-> Slice(SortByTotal(agentActivity.items, 1, <<>>), 0, TopAgents),
     agentActivity |-> agentActivity]

UpdateAgentChart(chs, d) ==
    IF ~Truthy(d[2]) THEN Returned(chs)
    ELSE LET sortedAgents == SortedAgents(d[2]).sortedAgents
         IN  Returned([chs EXCEPT
                 !.agentChart.labels =
                     Arr([i \in DOMAIN sortedAgents |-> sortedAgents[i].agent]),
                 !.agentChart.datasets[1] =
                     Arr([i \in DOMAIN sortedAgents |-> sortedAgents[i].total])])

\* Math.random() * 10: some number in [0, 10)
RandomCoordinate == [kind |-> "random"]

\* reading node.x of a null node is a TypeError
UpdateNetworkChart(chs, d) ==
    IF d[3].kind # "object" THEN Returned(chs)
    ELSE IF ~Truthy(d[3].nodes) THEN Returned(chs)
    ELSE LET nodes == d[3].nodes.items
         IN  IF \E i \in DOMAIN nodes : nodes[i].kind = "null" THEN Threw(chs)
             ELSE Returned([chs EXCEPT
                     !.networkChart.datasets[1] =
                         Arr([i \in DOMAIN nodes |->
                                 [x |-> RandomCoordinate, y |-> RandomCoordinate, r |-> 15]])])

UpdateTopicChart(chs, d) ==
    IF ~Truthy(d[4]) THEN Returned(chs)
    ELSE LET shaped == d[4].kind = "object"
         IN  Returned([chs EXCEPT
                 !.topicChart.labels =
                     IF shaped /\ Truthy(d[4].topics) THEN d[4].topics
                     ELSE Arr(DefaultTopics),
                 !.topicChart.datasets[1] =
                     IF shaped /\ Truthy(d[4].currentWeek) THEN d[4].currentWeek ELSE @,
                 !.topicChart.datasets[2] =
                     IF shaped /\ Truthy(d[4].lastWeek) THEN d[4].lastWeek ELSE @])

\* historicalTrends.map is a TypeError when the dataset is not an array
UpdateTrendChart(chs, d) ==
    IF ~Truthy(d[5]) THEN Returned(chs)
    ELSE IF ~IsArray(d[5]) THEN Threw(chs)
    ELSE LET trends == d[5].items
         IN  Returned([chs EXCEPT
                 !.trendChart.labels = Arr([i \in DOMAIN trends |-> trends[i].month]),
                 !.trendChart.datasets[1] =
                     Arr([i \in DOMAIN trends |-> trends[i].contributions]),
                 !.trendChart.datasets[2] =
                     Arr([i \in DOMAIN trends |-> trends[i].collaborationScore])])

TimecapsuleBase ==
    Str(<<"http", "s://",
          "github.com/ai-village-agents/village-time-capsule/blob/main/content/history/">>)

\* link.startsWith('http')
StartsWithHttp(link) == link.chunks # <<>> /\ link.chunks[1] = "http"

BuildTimecapsuleUrl(link) ==
    IF ~Truthy(link) THEN Null
    ELSE IF StartsWithHttp(link) THEN link
    ELSE Str(TimecapsuleBase.chunks \o link.chunks)

\* documentLinks.set(doc.name, doc.link || doc.name), in the order of the index
RECURSIVE SetDocumentLinks(_, _, _)
SetDocumentLinks(docs, i, links) ==
    IF i > Len(docs) THEN links
    ELSE SetDocumentLinks(docs, i + 1,
            [name \in (DOMAIN links) \cup {docs[i].name} |->
                IF name = docs[i].name
                THEN (IF Truthy(docs[i].link) THEN docs[i].link ELSE docs[i].name)
                ELSE links[name]])

DocumentLinks(knowledge) ==
    IF ~Truthy(knowledge) THEN <<>>
    ELSE IF ~Truthy(knowledge.timecapsule_documents) THEN <<>>
    ELSE SetDocumentLinks(knowledge.timecapsule_documents.items, 1, <<>>)

\* timeline_periods?.find(...): the first period with the goal's two days
FindPeriod(knowledge, goal) ==
    IF ~Truthy(knowledge.timeline_periods) THEN Undefined
    ELSE LET periods == knowledge.timeline_periods.items
             found == {i \in DOMAIN periods :
                          /\ periods[i].start_day = goal.start_day
                          /\ periods[i].end_day = goal.end_day}
         IN  IF found = {} THEN Undefined
             ELSE periods[CHOOSE i \in found : \A j \in found : i <= j]

\* obj[key]: an undefined key is the property name "undefined"
PropertyKey(key) == IF key.kind = "undefined" THEN "undefined" ELSE key.text

\* knowledge.references?.timeline_to_documents?.[timelinePeriod?.id]
ReferencedDocuments(knowledge, timelinePeriod) ==
    IF ~Truthy(knowledge.references) THEN Undefined
    ELSE IF ~Truthy(knowledge.references.timeline_to_documents) THEN Undefined
    ELSE LET byId == knowledge.references.timeline_to_documents.entries
             key == PropertyKey(IF timelinePeriod.kind = "undefined" THEN Undefined
                                ELSE timelinePeriod.id)
         IN  IF key \in DOMAIN byId THEN byId[key] ELSE Undefined

RECURSIVE FilterBoolean(_, _)
FilterBoolean(values, i) ==
    IF i > Len(values) THEN <<>>
    ELSE (IF Truthy(values[i]) THEN <<values[i]>> ELSE <<>>) \o FilterBoolean(values, i + 1)

LookupTimecapsuleDocs(goal, knowledge, documentLinks) ==
    IF ~Truthy(knowledge) THEN <<>>
    ELSE LET timelinePeriod == FindPeriod(knowledge, goal)
             own == IF timelinePeriod.kind = "undefined" THEN Undefined
                    ELSE timelinePeriod.timecapsule_documents
             referenced == ReferencedDocuments(knowledge, timelinePeriod)
             docNames == IF Truthy(own) THEN own.items
                         ELSE IF Truthy(referenced) THEN referenced.items
                         ELSE <<>>
             links == [i \in DOMAIN docNames |->
                          IF docNames[i] \in DOMAIN documentLinks
                             /\ Truthy(documentLinks[docNames[i]])
                          THEN documentLinks[docNames[i]] ELSE docNames[i]]
         IN  FilterBoolean([i \in DOMAIN links |-> BuildTimecapsuleUrl(links[i])], 1)

\* `Days ${goal.start_day}-${goal.end_day}: ${goal.goal}`
GoalLabel(goal) ==
    "Days " \o ToString(goal.start_day) \o "-" \o ToString(goal.end_day) \o ": " \o goal.goal

CreateTimelineChart(chs, d) ==
    IF ~Truthy(d[6]) THEN Returned(chs)
    ELSE IF ~Truthy(d[6].goals) THEN Returned(chs)
    ELSE IF Len(d[6].goals.items) = 0 THEN Returned(chs)
    ELSE LET goals == d[6].goals.items
             documentLinks == DocumentLinks(d[7])
         IN  Returned([chs EXCEPT !.timeline =
                 [kind |-> "chart",
                  labels |-> Arr([i \in DOMAIN goals |-> GoalLabel(goals[i])]),
                  datasets |-> <<Arr([i \in DOMAIN goals |->
                                        <<goals[i].start_day, goals[i].end_day>>])>>,
                  timelineDocs |-> [i \in DOMAIN goals |->
                                       LookupTimecapsuleDocs(goals[i], d[7], documentLinks)]]])

\* the operations run in order; the first that throws ends updateCharts
UpdateCharts(chs, d) ==
    LET overview == UpdateOverviewChart(chs, d)
        agent == IF overview.threw THEN overview ELSE UpdateAgentChart(overview.charts, d)
        network == IF agent.threw THEN agent ELSE UpdateNetworkChart(agent.charts, d)
        topic == IF network.threw THEN network ELSE UpdateTopicChart(network.charts, d)
        trend == IF topic.threw THEN topic ELSE UpdateTrendChart(topic.charts, d)
    IN  IF trend.threw THEN trend ELSE CreateTimelineChart(trend.charts, d)

----------------------------------------------------------------------------
(* Datasets the computations are applied to *)

MaxDays == 4

MaxBlock == 8

MaxEdges == 2

MaxTopics == 3

SeqsUpTo(S, n) == UNION {[1..k -> S] : k \in 0..n}

DayTotals == {0, 10, 20, 29, 30}

\* chronological ContributionDay records; the date is the day's number
Days(totals) == Arr([i \in DOMAIN totals |-> [date |-> i, total |-> totals[i]]])

Block(a, p, b, q) == [i \in 1..(a + b) |-> IF i <= a THEN p ELSE q]

DailyChoices ==
    {Days(t) : t \in SeqsUpTo(DayTotals, MaxDays)}
    \cup {Days(Block(a, p, b, q)) : a \in 0..MaxBlock, b \in 0..MaxBlock,
                                    p \in DayTotals, q \in DayTotals}

Agent(name, total) == [agent |-> name, total |-> total]

ScenarioAgents == Arr(<<Agent("A", 5), Agent("B", 25)>>)

ScenarioDaily == Days(<<10, 20>>)

AgentChoices == {Arr(<<>>), Arr(<<Agent("A", 5)>>), ScenarioAgents}

Node(id) == [kind |-> "node", id |-> id]

Edge(source, target, wtype, weight) ==
    [kind |-> "edge", source |-> source, target |-> target,
     wtype |-> wtype, weight |-> weight]

Net(nodes, edges, density) ==
    [kind |-> "object", nodes |-> nodes, edges |-> edges, density |-> density]

EdgeEnds == {<<"n1", "n2">>, <<"n2", "n3">>, <<"n1", "n1">>, <<"", "n3">>}

EdgeWeights == {<<"number", 5>>, <<"number", 10>>, <<"number", 20>>, <<"string", 10>>}

EdgeChoices ==
    {Edge(e[1], e[2], w[1], w[2]) : e \in EdgeEnds, w \in EdgeWeights} \cup {Null}

NodeLists ==
    {Null,
     Arr(<<Node("n1"), Node("n2"), Node("n3")>>),
     Arr(<<Node("n1")>>),
     Arr(<<Node("n1"), Node("")>>),
     Arr(<<Null, Node("n2")>>)}

ScenarioNet ==
    Net(Arr(<<Node("n1"), Node("n2"), Node("n3")>>),
        Arr(<<Edge("n1", "n2", "number", 10), Edge("n2", "n3", "number", 5)>>),
        Null)

NetworkChoices ==
    {Null, Net(Null, Null, Null), Net(Null, Null, [kind |-> "number", num |-> 1, den |-> 2])}
    \cup {Net(n, Arr(es), Null) : n \in NodeLists, es \in SeqsUpTo(EdgeChoices, MaxEdges)}

SmallNetworks ==
    {Null, ScenarioNet, Net(Arr(<<>>), Arr(<<Null>>), Null),
     Net(Null, Null, [kind |-> "number", num |-> 1, den |-> 2])}

Entry(topic, periodEnd, vtype, volume) ==
    [kind |-> "entry", topic |-> topic, period_end |-> periodEnd,
     vtype |-> vtype, volume |-> volume]

EntryChoices ==
    {Entry("Safety", "2024-01-07", "number", 8),
     Entry("Tooling", "2024-01-14", "number", 3),
     Entry("Alignment", "2024-01-14", "number", 8),
     Entry("UX Research", "2024-01-14T00:00:00.000Z", "number", 8),
     Entry("Data Quality", "soon", "number", 9),
     Entry("Autonomous Ops", "2024-01-21", "string", 9),
     Entry("Park Cleanup", "", "number", 9),
     Null}

\* the shape updateSummaryMetrics and updateTopicChart read
TopicEvolution(names, currentWeek, lastWeek) ==
    [kind |-> "object", topics |-> names, currentWeek |-> currentWeek, lastWeek |-> lastWeek]

EvolutionChoices ==
    {TopicEvolution(Null, Null, Null),
     TopicEvolution(Null, Arr(<<4, 9, 9, 2, 1, 0>>), Arr(<<1, 1, 1, 1, 1, 1>>)),
     TopicEvolution(Arr(<<"Safety", "Tooling">>), Arr(<<3, 7>>), Null),
     TopicEvolution(Arr(<<"Safety">>), Arr(<<3, 7>>), Null),
     TopicEvolution(Arr(<<"Safety">>), Arr(<<>>), Null)}

ScenarioTopics ==
    Arr(<<Entry("Safety", "2024-01-07", "number", 8),
          Entry("Tooling", "2024-01-14", "number", 3)>>)

TopicChoices ==
    {Null} \cup EvolutionChoices
    \cup {Arr(t) : t \in SeqsUpTo(EntryChoices, MaxTopics)}

SmallTopics == {Null, ScenarioTopics, Arr(<<Null>>), Arr(<<>>)}

MaxAgents == 6

MaxPeriods == 2

AgentNames == <<"A", "B", "C", "D", "E", "F", "G", "H">>

AgentTotals == {5, 25, 40}

AgentList(totals) == Arr([i \in DOMAIN totals |-> Agent(AgentNames[i], totals[i])])

AgentLists == {AgentList(t) : t \in SeqsUpTo(AgentTotals, MaxAgents)}

Month(month, contributions, collaborationScore) ==
    [month |-> month, contributions |-> contributions,
     collaborationScore |-> collaborationScore]

ScenarioTrends == Arr(<<Month("Jan", 10, 5)>>)

\* a historical_trends.json that is an object, not the array of months
TrendsObject == [kind |-> "object"]

TrendChoices ==
    {Null, Arr(<<>>), ScenarioTrends, Arr(<<Month("Jan", 10, 5), Month("Feb", 12, 6)>>),
     TrendsObject}

Goal(start, end, goal) ==
    [start_day |-> start, end_day |-> end, goal |-> goal,
     category |-> "other", agent_hours |-> 12]

Timeline(goals) == [kind |-> "object", goals |-> goals]

ScenarioTimeline == Timeline(Arr(<<Goal(1, 5, "Launch")>>))

TimelineChoices ==
    {Null, Timeline(Undefined), Timeline(Arr(<<>>)), ScenarioTimeline,
     Timeline(Arr(<<Goal(1, 5, "Launch"), Goal(6, 9, "Rest")>>))}

DocA == Str(<<"day-001.md">>)

DocB == Str(<<"day-002.md">>)

DocC == Str(<<"http", "-notes.md">>)

Doc(name, link) == [name |-> name, link |-> link]

DocumentIndexChoices ==
    {Undefined,
     Arr(<<Doc(DocA, Str(<<"http", "s://", "example.org/a">>)),
           Doc(DocB, Undefined),
           Doc(DocC, Str(<<"ftp", "://", "host/c.md">>))>>),
     Arr(<<Doc(DocA, Str(<<"http", "docs/a.md">>)),
           Doc(DocA, Str(<<"notes/a.md">>)),
           Doc(DocB, Str(<<"http", "://", "example.org/b">>))>>)}

Key(text) == [kind |-> "key", text |-> text]

Period(id, start, end, documents) ==
    [kind |-> "period", id |-> id, start_day |-> start, end_day |-> end,
     timecapsule_documents |-> documents]

PeriodChoices ==
    {Period(Key("p1"), 1, 5, Arr(<<DocA, DocB>>)),
     Period(Key("p1"), 1, 5, Undefined),
     Period(Undefined, 1, 5, Undefined),
     Period(Key("p2"), 6, 9, Arr(<<>>)),
     Period(Key("p2"), 6, 9, Arr(<<DocC, DocA>>)),
     Period(Key("p3"), 1, 4, Arr(<<DocC>>))}

References(byId) ==
    [kind |-> "object",
     timeline_to_documents |-> IF byId = <<>> THEN Undefined
                               ELSE [kind |-> "object", entries |-> byId]]

ReferenceChoices ==
    {Undefined,
     References(<<>>),
     References([k \in {"p1"} |-> Arr(<<DocC, DocB>>)]),
     References([k \in {"p1", "undefined"} |->
                    IF k = "p1" THEN Arr(<<DocB>>) ELSE Arr(<<DocC>>)])}

Knowledge(periods, documents, references) ==
    [kind |-> "object", timeline_periods |-> periods,
     timecapsule_documents |-> documents, references |-> references]

KnowledgeChoices ==
    {Null}
    \cup {Knowledge(p, x, r) :
             p \in {Undefined} \cup {Arr(ps) : ps \in SeqsUpTo(PeriodChoices, MaxPeriods)},
             x \in DocumentIndexChoices, r \in ReferenceChoices}

ScenarioEvolution == TopicEvolution(Arr(<<"Safety", "Tooling">>), Arr(<<3, 7>>), Null)

\* this.data once loadAllData has returned
Data(daily, agentList, net, topicEvolution, trends, timeline, knowledge) ==
    <<daily, agentList, net, topicEvolution, trends, timeline, knowledge>>

DataChoices ==
    {Data(ScenarioDaily, a, ScenarioNet, ScenarioEvolution, ScenarioTrends,
          ScenarioTimeline, Null) : a \in {Null} \cup AgentLists}
    \cup {Data(x, ScenarioAgents, ScenarioNet, ScenarioEvolution, ScenarioTrends,
               ScenarioTimeline, Null) :
             x \in {Null, Days(Block(OneWeek, 30, 1, 29))}
                    \cup {Days(t) : t \in SeqsUpTo(DayTotals, MaxDays)}}
    \cup {Data(ScenarioDaily, ScenarioAgents, n, t, h, ScenarioTimeline, Null) :
             n \in SmallNetworks \cup {Net(x, Arr(<<>>), Null) : x \in NodeLists},
             t \in SmallTopics \cup EvolutionChoices, h \in TrendChoices}
    \cup {Data(ScenarioDaily, ScenarioAgents, ScenarioNet, ScenarioEvolution,
               ScenarioTrends, g, k) : g \in TimelineChoices, k \in KnowledgeChoices}

----------------------------------------------------------------------------
(* DataLoader.fetchJSON and the load methods *)

LoadMethods ==
    {"loadDailyContributions", "loadAgentActivity", "loadCollaborationNetwork",
     "loadTopicEvolution", "loadHistoricalTrends", "loadVillageGoals",
     "loadVillageTimeline", "fetchKnowledgeIntegration"}

\* the file each load method passes to fetchJSON
FileOf(method) ==
    CASE method = "loadDailyContributions" -> "daily_contributions.json"
      [] method = "loadAgentActivity" -> "agent_activity_real.json"
      [] method = "loadCollaborationNetwork" -> "collaboration_network.json"
      [] method = "loadTopicEvolution" -> "topic_evolution.json"
      [] method = "loadHistoricalTrends" -> "historical_trends.json"
      [] method = "loadVillageGoals" -> "village_goals.json"
      [] method = "loadVillageTimeline" -> "village_timeline.json"
      [] method = "fetchKnowledgeIntegration" -> "knowledge_integration.json"

FileNames == {FileOf(m) : m \in LoadMethods}

\* how a request can end: fetch() rejects (network error, timeout), the
\* response is not ok, response.json() rejects, or the body parses
Outcomes == {"rejected", "notok", "badjson", "ok"}

\* the try block: throws unless the response is ok and its body parses
TryFetch(outcome, body) ==
    IF outcome = "ok" THEN [threw |-> FALSE, value |-> body] ELSE [threw |-> TRUE]

FetchJSONNoCatch(outcome, body) ==
    IF TryFetch(outcome, body).threw THEN Rejected
    ELSE Fulfilled(TryFetch(outcome, body).value)

\* fetchJSON: the catch block logs and returns null
FetchJSON(outcome, body) ==
    IF TryFetch(outcome, body).threw THEN Fulfilled(Null)
    ELSE Fulfilled(TryFetch(outcome, body).value)

Site(daily, agentList, net, topicList) ==
    [f \in FileNames |->
        CASE f = "daily_contributions.json" -> daily
          [] f = "agent_activity_real.json" -> agentList
          [] f = "collaboration_network.json" -> net
          [] f = "topic_evolution.json" -> topicList
          [] f = "historical_trends.json" -> ScenarioTrends
          [] f = "village_goals.json" -> Arr(<<>>)
          [] f = "village_timeline.json" -> ScenarioTimeline
          [] f = "knowledge_integration.json" -> Null]

Sites ==
    {Site(ScenarioDaily, ScenarioAgents, ScenarioNet,
          TopicEvolution(Arr(<<"Safety", "Tooling">>), Arr(<<3, 7>>), Null)),
     Site(Days(Block(OneWeek, 30, 1, 29)), ScenarioAgents, ScenarioNet, ScenarioTopics),
     Site(ScenarioDaily, ScenarioAgents, Net(Arr(<<>>), Arr(<<Null>>), Null), ScenarioTopics),
     Site(Days(<<>>), Arr(<<>>), Null, Null),
     [Site(ScenarioDaily, ScenarioAgents, ScenarioNet, ScenarioEvolution)
         EXCEPT !["historical_trends.json"] = TrendsObject],
     Site(ScenarioDaily, ScenarioAgents,
          Net(Arr(<<Node("n1"), Node("n2")>>), Arr(<<>>), Str(<<"0.72">>)),
          ScenarioEvolution)}

RequestIdle == request = [status |-> "idle"]

\* one of the load methods is called: fetch(basePath + filename) is in flight
CallLoad ==
    /\ request.status \in {"idle", "settled"}
    /\ \E method \in LoadMethods :
          request' = [status |-> "pending", method |-> method, filename |-> FileOf(method)]
    /\ UNCHANGED <<files, pageVars, metricVars>>

\* the request ends and fetchJSON returns
SettleFetch ==
    /\ request.status = "pending"
    /\ \E outcome \in Outcomes :
          request' = [status |-> "settled", method |-> request.method,
                      filename |-> request.filename, outcome |-> outcome,
                      result |-> FetchJSON(outcome, files[request.filename])]
    /\ UNCHANGED <<files, pageVars, metricVars>>

----------------------------------------------------------------------------
(* The page: metric cards, the DataLoader handler, ChartUpdater.initialize *)

Cards == 1..5

\* the cards as the page's HTML ships them
InitialCards == [c \in Cards |-> [strong |-> "--", tag |-> "Loading", loading |-> TRUE]]

\* the handler's four datasets, in the order of its Promise.all
LoaderKeys == <<"loadAgentActivity", "loadDailyContributions", "loadTopicEvolution",
                "loadCollaborationNetwork">>

\* the seven datasets of loadAllData, in the order they are awaited
UpdaterKeys == <<"loadDailyContributions", "loadAgentActivity", "loadCollaborationNetwork",
                 "loadTopicEvolution", "loadHistoricalTrends", "loadVillageTimeline",
                 "fetchKnowledgeIntegration">>

PageIdle ==
    /\ loaderPc = "idle"
    /\ loaderFetch = [k \in DOMAIN LoaderKeys |-> [state |-> "idle"]]
    /\ updaterPc = "idle"
    /\ updaterFetch = [k \in DOMAIN UpdaterKeys |-> "idle"]
    /\ data = [k \in DOMAIN UpdaterKeys |-> Undefined]
    /\ cards = InitialCards
    /\ panelsLoading = TRUE
    /\ errorShown = FALSE
    /\ charts = InitialCharts

MetricsIdle ==
    /\ agents = Null
    /\ dailyContributions = Null
    /\ topics = Null
    /\ collaborationNetwork = Null
    /\ applied = "none"
    /\ result = Null

\* setMetric(index, value, tagText)
SetMetric(cs, index, value, tagText) ==
    [cs EXCEPT ![index + 1] = [strong |-> value, tag |-> tagText, loading |-> FALSE]]

\* showUnavailable(message)
ShowUnavailable(cs, message) ==
    [c \in Cards |-> [strong |-> "N/A", tag |-> message, loading |-> FALSE]]

\* the handler after Promise.all has resolved
HandlerRender(cs, agentList, daily, topicList, net) ==
    IF agentList.kind = "null" \/ daily.kind = "null"
    THEN ShowUnavailable(cs, "Data unavailable")
    ELSE LET metrics == CalculateSummaryMetrics(agentList, daily, topicList, net)
         IN  IF metrics.settled = "rejected"
             THEN ShowUnavailable(cs, "Data unavailable")
             ELSE IF metrics.value.kind = "null"
             THEN ShowUnavailable(cs, "Metrics unavailable")
             ELSE SetMetric(
                    SetMetric(
                      SetMetric(
                        SetMetric(cs, 0, ToLocaleString(metrics.value.totalContributions),
                                  LoaderWeekly(daily).label),
                        1, ToString(metrics.value.activeAgents), "Currently contributing"),
                      2, ToFixed2(metrics.value.collaborationDensity), "Collaboration health"),
                    3, metrics.value.trendingTopic, "Top mentioned topic")

\* the handler runs up to its await: the four loads are started together
DataLoaderHandlerStart ==
    /\ loaderPc = "idle"
    /\ loaderPc' = "awaiting"
    /\ loaderFetch' = [k \in DOMAIN LoaderKeys |-> [state |-> "pending"]]
    /\ UNCHANGED <<files, request, updaterPc, updaterFetch, data, cards,
                   panelsLoading, errorShown, charts, metricVars>>

LoaderValue(slots, k) == slots[k].result.value

\* one of the handler's fetches ends; a rejection ends Promise.all at once,
\* the last fulfilment lets the handler run to its end
LoaderFetchSettles ==
    /\ \E k \in DOMAIN LoaderKeys, outcome \in Outcomes :
          /\ loaderFetch[k].state = "pending"
          /\ LET res == FetchJSON(outcome, files[FileOf(LoaderKeys[k])])
                 slots == [loaderFetch EXCEPT ![k] = [state |-> "settled", result |-> res]]
                 allSettled == \A j \in DOMAIN LoaderKeys : slots[j].state = "settled"
             IN  /\ loaderFetch' = slots
                 /\ IF loaderPc # "awaiting"
                    THEN UNCHANGED <<loaderPc, cards>>
                    ELSE IF res.settled = "rejected"
                    THEN /\ loaderPc' = "done"
                         /\ cards' = ShowUnavailable(cards, "Data unavailable")
                    ELSE IF allSettled
                    THEN /\ loaderPc' = "done"
                         /\ cards' = HandlerRender(cards, LoaderValue(slots, 1),
                                                   LoaderValue(slots, 2), LoaderValue(slots, 3),
                                                   LoaderValue(slots, 4))
                    ELSE UNCHANGED <<loaderPc, cards>>
    /\ UNCHANGED <<files, request, updaterPc, updaterFetch, data,
                   panelsLoading, errorShown, charts, metricVars>>

\* showLoadingStates()
ShowLoadingStates(cs) == [c \in Cards |-> [cs[c] EXCEPT !.loading = TRUE]]

\* the mutation: the 'loading' class is left on the cards
KeepLoadingStates(cs) == cs

\* hideLoadingStates(), on the metric cards
HideLoadingStates(cs) == [c \in Cards |-> [cs[c] EXCEPT !.loading = FALSE]]

\* initialize() runs up to the first await of loadAllData
ChartUpdaterStart ==
    /\ loaderPc # "idle"
    /\ updaterPc = "idle"
    /\ updaterPc' = "loading"
    /\ cards' = ShowLoadingStates(cards)
    /\ panelsLoading' = TRUE
    /\ updaterFetch' = [updaterFetch EXCEPT ![1] = "pending"]
    /\ UNCHANGED <<files, request, loaderPc, loaderFetch, data, errorShown, charts,
                   metricVars>>

\* what updateSummaryMetrics does to the cards
UpdaterRender(cs, d) ==
    LET written == UpdateSummaryMetrics(d[2], d[1], d[4], d[3])
    IN  IF written.returned = "early" THEN cs
        ELSE IF written.returned = "threw"
        THEN [c \in Cards |->
                IF c <= Len(written.strong)
                THEN [cs[c] EXCEPT !.strong = written.strong[c]] ELSE cs[c]]
        ELSE [c \in Cards |->
                [strong |-> written.strong[c],
                 tag |-> IF c = 1 THEN written.weekly.label
                         ELSE IF c = 5 THEN written.pagesTag ELSE cs[c].tag,
                 loading |-> cs[c].loading]]

\* updateSummaryMetrics() threw
UpdaterThrows(d) == UpdateSummaryMetrics(d[2], d[1], d[4], d[3]).returned = "threw"

\* the fetch loadAllData awaits ends: the next one is started, or, after the
\* seventh, the cards and then the charts are updated and the loading states
\* hidden; a rejection is re-thrown to initialize(), which shows the error
\* state, as does an exception of updateSummaryMetrics or updateCharts
UpdaterFetchSettles ==
    /\ updaterPc = "loading"
    /\ \E k \in DOMAIN UpdaterKeys, outcome \in Outcomes :
          /\ updaterFetch[k] = "pending"
          /\ LET res == FetchJSON(outcome, files[FileOf(UpdaterKeys[k])])
             IN  IF res.settled = "rejected"
                 THEN /\ updaterFetch' = [updaterFetch EXCEPT ![k] = "settled"]
                      /\ updaterPc' = "done"
                      /\ cards' = HideLoadingStates(cards)
                      /\ panelsLoading' = FALSE
                      /\ errorShown' = TRUE
                      /\ UNCHANGED <<data, charts>>
                 ELSE IF k < Len(UpdaterKeys)
                 THEN /\ updaterFetch' = [updaterFetch EXCEPT ![k] = "settled",
                                                              ![k + 1] = "pending"]
                      /\ data' = [data EXCEPT ![k] = res.value]
                      /\ UNCHANGED <<updaterPc, cards, panelsLoading, errorShown, charts>>
                 ELSE LET loaded == [data EXCEPT ![k] = res.value]
                          updated == UpdateCharts(charts, loaded)
                      IN  /\ updaterFetch' = [updaterFetch EXCEPT ![k] = "settled"]
                          /\ data' = loaded
                          /\ updaterPc' = "done"
                          /\ cards' = HideLoadingStates(UpdaterRender(cards, loaded))
                          /\ panelsLoading' = FALSE
                          /\ charts' = IF UpdaterThrows(loaded) THEN charts
                                       ELSE updated.charts
                          /\ errorShown' = IF UpdaterThrows(loaded) THEN TRUE
                                           ELSE updated.threw
    /\ UNCHANGED <<files, request, loaderPc, loaderFetch, metricVars>>

Init ==
    /\ files \in Sites
    /\ RequestIdle
    /\ PageIdle
    /\ MetricsIdle

Next ==
    \/ DataLoaderHandlerStart
    \/ ChartUpdaterStart
    \/ LoaderFetchSettles
    \/ UpdaterFetchSettles

Spec == Init /\ [][Next]_vars

InitFetch ==
    /\ files \in Sites
    /\ RequestIdle
    /\ PageIdle
    /\ MetricsIdle

NextFetch == CallLoad \/ SettleFetch

SpecFetch == InitFetch /\ [][NextFetch]_vars

----------------------------------------------------------------------------
(* The summary computations applied to loaded datasets *)

InitMetrics ==
    /\ files = Site(ScenarioDaily, ScenarioAgents, ScenarioNet, ScenarioTopics)
    /\ RequestIdle
    /\ PageIdle
    /\ applied = "none"
    /\ result = Null
    /\ \/ /\ agents \in {Null, ScenarioAgents}
          /\ dailyContributions \in {Null} \cup DailyChoices
          /\ topics = ScenarioTopics
          /\ collaborationNetwork = ScenarioNet
       \/ /\ agents \in {Null} \cup AgentChoices
          /\ dailyContributions \in {Null, Days(<<>>), ScenarioDaily}
          /\ topics \in SmallTopics
          /\ collaborationNetwork \in SmallNetworks
       \/ /\ agents = ScenarioAgents
          /\ dailyContributions = ScenarioDaily
          /\ topics = ScenarioTopics
          /\ collaborationNetwork \in NetworkChoices
       \/ /\ agents = ScenarioAgents
          /\ dailyContributions = ScenarioDaily
          /\ topics \in TopicChoices
          /\ collaborationNetwork = ScenarioNet

Loaded == <<files, request, pageVars, agents, dailyContributions, topics, collaborationNetwork>>

\* loader.calculateSummaryMetrics(agents, daily, topics, collaborationNetwork)
ApplyCalculateSummaryMetrics ==
    /\ applied = "none"
    /\ applied' = "calculateSummaryMetrics"
    /\ result' = CalculateSummaryMetrics(agents, dailyContributions, topics,
                                         collaborationNetwork)
    /\ UNCHANGED Loaded

MetricsAvailable ==
    /\ agents.kind # "null"
    /\ dailyContributions.kind # "null"
    /\ CalculateSummaryMetrics(agents, dailyContributions, topics,
                               collaborationNetwork).settled = "fulfilled"

\* the handler's weekly change, computed once the metrics are available
ApplyWeeklyChange ==
    /\ applied = "none"
    /\ MetricsAvailable
    /\ applied' = "weeklyChange"
    /\ result' = LoaderWeekly(dailyContributions)
    /\ UNCHANGED Loaded

\* updater.updateSummaryMetrics() on this.data
ApplyUpdateSummaryMetrics ==
    /\ applied = "none"
    /\ applied' = "updateSummaryMetrics"
    /\ result' = UpdateSummaryMetrics(agents, dailyContributions, topics,
                                      collaborationNetwork)
    /\ UNCHANGED Loaded

NextMetrics ==
    \/ ApplyCalculateSummaryMetrics
    \/ ApplyWeeklyChange
    \/ ApplyUpdateSummaryMetrics

SpecMetrics == InitMetrics /\ [][NextMetrics]_vars

----------------------------------------------------------------------------
(* The chart operations applied to loaded datasets *)

InitCharts ==
    /\ files = Site(ScenarioDaily, ScenarioAgents, ScenarioNet, ScenarioEvolution)
    /\ RequestIdle
    /\ MetricsIdle
    /\ loaderPc = "awaiting"
    /\ loaderFetch = [k \in DOMAIN LoaderKeys |-> [state |-> "pending"]]
    /\ updaterPc = "loading"
    /\ updaterFetch = [k \in DOMAIN UpdaterKeys |-> "settled"]
    /\ data \in DataChoices
    /\ cards = InitialCards
    /\ panelsLoading = TRUE
    /\ errorShown = FALSE
    /\ charts = InitialCharts

ChartFrame ==
    <<files, request, loaderPc, loaderFetch, updaterPc, updaterFetch, cards,
      panelsLoading, errorShown, agents, dailyContributions, topics,
      collaborationNetwork>>

\* one operation of updateCharts is run on this.data; result keeps this.data
\* as it was when the operation was called
ApplyUpdateOverviewChart ==
    /\ applied = "none"
    /\ applied' = "updateOverviewChart"
    /\ charts' = UpdateOverviewChart(charts, data).charts
    /\ result' = [before |-> data, threw |-> UpdateOverviewChart(charts, data).threw]
    /\ UNCHANGED <<data, ChartFrame>>

ApplyUpdateAgentChart ==
    /\ applied = "none"
    /\ applied' = "updateAgentChart"
    /\ charts' = UpdateAgentChart(charts, data).charts
    /\ data' = IF Truthy(data[2])
               THEN [data EXCEPT ![2] = SortedAgents(data[2]).agentActivity]
               ELSE data
    /\ result' = [before |-> data, threw |-> UpdateAgentChart(charts, data).threw]
    /\ UNCHANGED ChartFrame

ApplyUpdateNetworkChart ==
    /\ applied = "none"
    /\ applied' = "updateNetworkChart"
    /\ charts' = UpdateNetworkChart(charts, data).charts
    /\ result' = [before |-> data, threw |-> UpdateNetworkChart(charts, data).threw]
    /\ UNCHANGED <<data, ChartFrame>>

ApplyUpdateTopicChart ==
    /\ applied = "none"
    /\ applied' = "updateTopicChart"
    /\ charts' = UpdateTopicChart(charts, data).charts
    /\ result' = [before |-> data, threw |-> UpdateTopicChart(charts, data).threw]
    /\ UNCHANGED <<data, ChartFrame>>

ApplyUpdateTrendChart ==
    /\ applied = "none"
    /\ applied' = "updateTrendChart"
    /\ charts' = UpdateTrendChart(charts, data).charts
    /\ result' = [before |-> data, threw |-> UpdateTrendChart(charts, data).threw]
    /\ UNCHANGED <<data, ChartFrame>>

ApplyCreateTimelineChart ==
    /\ applied = "none"
    /\ applied' = "createTimelineChart"
    /\ charts' = CreateTimelineChart(charts, data).charts
    /\ result' = [before |-> data, threw |-> CreateTimelineChart(charts, data).threw]
    /\ UNCHANGED <<data, ChartFrame>>

NextCharts ==
    \/ ApplyUpdateOverviewChart
    \/ ApplyUpdateAgentChart
    \/ ApplyUpdateNetworkChart
    \/ ApplyUpdateTopicChart
    \/ ApplyUpdateTrendChart
    \/ ApplyCreateTimelineChart

SpecCharts == InitCharts /\ [][NextCharts]_vars

----------------------------------------------------------------------------
(* Properties of the summary computations *)

Summarised ==
    /\ applied = "calculateSummaryMetrics"
    /\ result.settled = "fulfilled"
    /\ result.value.kind = "summary"

Updated ==
    /\ applied = "updateSummaryMetrics"
    /\ result.returned = "written"

RECURSIVE SumOfTotals(_)
SumOfTotals(days) ==
    IF days = <<>> THEN 0
    ELSE days[Len(days)].total + SumOfTotals(SubSeq(days, 1, Len(days) - 1))

\* C3: calculateSummaryMetrics never rejects; it resolves to null exactly when
\* agents or dailyContributions is null, and otherwise to a summary whose
\* totalContributions and activeAgents do not depend on topics or the graph,
\* whatever malformed records (a null edge, a null topic entry) those hold.
C3_NeverRejects ==
    applied = "calculateSummaryMetrics" =>
        /\ result.settled = "fulfilled"
        /\ (result.value.kind = "null")
              <=> (agents.kind = "null" \/ dailyContributions.kind = "null")
        /\ result.value.kind # "null" =>
              /\ result.value.kind = "summary"
              /\ result.value.totalContributions = SumOfTotals(dailyContributions.items)
              /\ result.value.activeAgents = Len(agents.items)

\* C4: totalContributions is the sum of the days' totals (0 for no days) and
\* activeAgents the number of agent records, in calculateSummaryMetrics and in
\* what updateSummaryMetrics writes to the first two cards.
C4_TotalsAndAgents ==
    /\ Summarised =>
          /\ result.value.totalContributions = SumOfTotals(dailyContributions.items)
          /\ dailyContributions.items = <<>> => result.value.totalContributions = 0
          /\ result.value.activeAgents = Cardinality(DOMAIN agents.items)
    /\ Updated =>
          /\ result.totalContributions = SumOfTotals(dailyContributions.items)
          /\ result.activeAgents = Cardinality(DOMAIN agents.items)
          /\ result.strong[1] = ToLocaleString(SumOfTotals(dailyContributions.items))
          /\ result.strong[2] = ToString(Cardinality(DOMAIN agents.items))

C4_Witness ==
    /\ Summarised
    /\ dailyContributions = ScenarioDaily
    /\ agents = ScenarioAgents
    /\ result.value.totalContributions = 30
    /\ result.value.activeAgents = 2

EdgesOf(net) ==
    IF net.kind = "object" /\ IsArray(net.edges) THEN net.edges.items ELSE <<>>

WeightsInRange(net) ==
    \A i \in DOMAIN EdgesOf(net) :
        (EdgesOf(net)[i].kind = "edge" /\ EdgesOf(net)[i].wtype = "number")
            => EdgesOf(net)[i].weight \in 0..AssumedMaxWeight

\* C5: with every edge weight in [0,20] the collaboration density lies in
\* [0,1], for any number of edges, parallel edges and self-loops included.
C5_DensityWithinUnit ==
    (Summarised /\ WeightsInRange(collaborationNetwork)) =>
        /\ RatLeq(Zero, result.value.collaborationDensity)
        /\ RatLeq(result.value.collaborationDensity, Rat(1, 1))

DeclaredIds(net) ==
    IF net.kind = "object" /\ IsArray(net.nodes)
    THEN {net.nodes.items[i].id : i \in DOMAIN net.nodes.items} \ {""}
    ELSE {}

EndpointIds(net) ==
    UNION {{EdgesOf(net)[i].source, EdgesOf(net)[i].target} : i \in DOMAIN EdgesOf(net)}
        \ {""}

RECURSIVE NumericWeight(_, _)
NumericWeight(edges, S) ==
    IF S = {} THEN 0
    ELSE LET i == CHOOSE j \in S : TRUE
         IN  (IF edges[i].wtype = "number" THEN edges[i].weight ELSE 0)
             + NumericWeight(edges, S \ {i})

\* C6: density = totalEdgeWeight / (maxPossibleEdges * 20), the node count being
\* the size of the union of the declared ids and the edge endpoint ids, the
\* maximum n(n-1)/2, non-numeric weights counting 0; exactly 0 with no edges or
\* at most one node.
C6_DensityFormula ==
    Summarised =>
        LET net == collaborationNetwork
            edges == EdgesOf(net)
            n == Cardinality(DeclaredIds(net) \cup EndpointIds(net))
            total == NumericWeight(edges, DOMAIN edges)
            density == result.value.collaborationDensity
        IN  IF edges = <<>> \/ n <= 1
            THEN density.num = 0
            ELSE density.num * n * (n - 1) * AssumedMaxWeight = 2 * total * density.den

C6_Witness ==
    /\ Summarised
    /\ collaborationNetwork =
          Net(Arr(<<Node("n1")>>), Arr(<<Edge("n2", "n3", "number", 10)>>), Null)
    /\ RatEq(result.value.collaborationDensity, Rat(1, 6))

TopicItems == IF IsArray(topics) THEN topics.items ELSE <<>>

ValidTopicIndex ==
    {i \in DOMAIN TopicItems :
        /\ TopicItems[i].kind = "entry"
        /\ TopicItems[i].period_end # ""
        /\ DateParse(TopicItems[i].period_end).valid
        /\ TopicItems[i].vtype = "number"}

TimeAt(i) == DateParse(TopicItems[i].period_end).time

LatestTopicIndex ==
    {i \in ValidTopicIndex : \A j \in ValidTopicIndex : TimeAt(j) <= TimeAt(i)}

\* C7: trendingTopic is the topic of the first record of largest volume among
\* the valid records at the maximal period_end; 'N/A' when there is no valid
\* record (absent, empty or all-invalid list).
C7_TrendingTopic ==
    Summarised =>
        IF ValidTopicIndex = {}
        THEN result.value.trendingTopic = "N/A"
        ELSE LET best == {i \in LatestTopicIndex :
                             \A j \in LatestTopicIndex :
                                 TopicItems[j].volume <= TopicItems[i].volume}
                 first == CHOOSE i \in best : \A j \in best : i <= j
             IN  result.value.trendingTopic = TopicItems[first].topic

C7_Witness ==
    /\ Summarised
    /\ topics = Arr(<<Entry("Data Quality", "soon", "number", 9),
                      Entry("UX Research", "2024-01-14T00:00:00.000Z", "number", 8),
                      Entry("Alignment", "2024-01-14", "number", 8)>>)
    /\ result.value.trendingTopic = "UX Research"

WeeklyApplied == applied = "weeklyChange" \/ Updated

Weekly == IF applied = "weeklyChange" THEN result ELSE result.weekly

Dates(days) == {days[i].date : i \in DOMAIN days}

\* the exact percentage (this - prior) / prior * 100 of two windows, prior mean > 0
ExactChange(thisWeek, priorWeek) ==
    Rat((SumOfTotals(thisWeek) * Len(priorWeek) - SumOfTotals(priorWeek) * Len(thisWeek)) * 100,
        SumOfTotals(priorWeek) * Len(thisWeek))

\* C8: 'this week' is the most recent 7 entries and 'prior week' the entries
\* immediately before them within the last 14, no entry in both windows, for
\* every length of dailyContributions; the change is
\* (thisWeekMean - priorWeekMean) / priorWeekMean * 100.
C8_DisjointWindows ==
    WeeklyApplied =>
        LET days == dailyContributions.items
            n == Len(days)
        IN  /\ Weekly.thisWeek = SubSeq(days, Max(n - OneWeek, 0) + 1, n)
            /\ Weekly.priorWeek = SubSeq(days, Max(n - TwoWeeks, 0) + 1, Max(n - OneWeek, 0))
            /\ Dates(Weekly.thisWeek) \cap Dates(Weekly.priorWeek) = {}

\* C9: when the mean of the prior-week window is 0 (an empty window included)
\* the weekly change is exactly 0 whatever this week's mean, in the handler and
\* in updateSummaryMetrics.
C9_ZeroPriorMean ==
    (WeeklyApplied /\ SumOfTotals(Weekly.priorWeek) = 0) =>
        IF applied = "weeklyChange"
        THEN Weekly.change.num = 0
        ELSE Weekly.change.kind = "number" /\ FixedToNumber(Weekly.change) = 0

C9_Witness ==
    /\ applied = "weeklyChange"
    /\ dailyContributions = Days(Block(OneWeek, 0, 1, 30))
    /\ SumOfTotals(result.priorWeek) = 0
    /\ SumOfTotals(result.thisWeek) = 30
    /\ result.change.num = 0

\* the nearest integers of a fraction (both neighbours at a tie)
Nearest(r) ==
    {k \in {r.num \div r.den, (r.num \div r.den) + 1} :
        2 * Abs(r.num - k * r.den) <= r.den}

SignedText(k) == (IF k >= 0 THEN "+" ELSE "") \o ToString(k) \o "% vs last week"

\* C10: the tag shows the change rounded to the nearest integer, with '+'
\* exactly when the shown integer is non-negative and a single '-' otherwise,
\* never both signs and never a bare non-negative number.
C10_SignedLabel ==
    WeeklyApplied =>
        LET change == IF SumOfTotals(Weekly.priorWeek) > 0
                      THEN ExactChange(Weekly.thisWeek, Weekly.priorWeek)
                      ELSE Zero
        IN  Weekly.label \in {SignedText(k) : k \in Nearest(change)}

----------------------------------------------------------------------------
(* Properties of the loader and of the refresh cycles *)

\* C1: fetchJSON, and every load method through it, never propagates an
\* exception: whatever way the request ends the promise is fulfilled, with null
\* unless the response was ok and parsed, and then with the parsed body.
C1_FetchNeverThrows ==
    request.status = "settled" =>
        /\ request.result.settled = "fulfilled"
        /\ request.outcome # "ok" => request.result.value = Null
        /\ request.outcome = "ok" => request.result.value = files[request.filename]

C1_Witness ==
    /\ request.status = "settled"
    /\ request.method = "loadTopicEvolution"
    /\ request.outcome = "badjson"
    /\ request.result = Fulfilled(Null)

LoaderStarted == \A k \in DOMAIN LoaderKeys : loaderFetch[k].state # "idle"

LoaderSettled == \A k \in DOMAIN LoaderKeys : loaderFetch[k].state = "settled"

UpdaterStarted == \A k \in DOMAIN UpdaterKeys : updaterFetch[k] # "idle"

UpdaterSettled == \A k \in DOMAIN UpdaterKeys : updaterFetch[k] = "settled"

\* C2: in a refresh cycle all the dataset fetches are started before any of
\* them is awaited, and the cards are written only once all have settled, so no
\* fetch waits for another one to end before it starts.
C2_FanOutFanIn ==
    /\ loaderPc # "idle" => LoaderStarted
    /\ loaderPc = "done" => LoaderSettled
    /\ updaterPc # "idle" => UpdaterStarted
    /\ updaterPc = "done" => UpdaterSettled

----------------------------------------------------------------------------
(* Properties of the chart operations *)

AgentCharted == applied = "updateAgentChart" /\ IsArray(result.before[2])

\* the agents ranked ahead of agent i: a larger total, or the same total and
\* an earlier place in the loaded list
Ahead(list, i) ==
    {j \in DOMAIN list : \/ list[j].total > list[i].total
                         \/ list[j].total = list[i].total /\ j < i}

\* C11: updateAgentChart shows the min(5, n) agents of largest total in
\* descending order of total, agents of equal total in their loaded order, with
\* label k and value k belonging to the same agent and nothing padded; the
\* loaded agentActivity list is left as it was
C11_TopAgents ==
    AgentCharted =>
        LET list == result.before[2].items
            labels == charts.agentChart.labels.items
            values == charts.agentChart.datasets[1].items
        IN  /\ Len(labels) = Min(TopAgents, Len(list))
            /\ Len(values) = Min(TopAgents, Len(list))
            /\ \A i \in DOMAIN list :
                  LET place == Cardinality(Ahead(list, i)) + 1
                  IN  place <= TopAgents =>
                          /\ labels[place] = list[i].agent
                          /\ values[place] = list[i].total
            /\ data = result.before

\* more than five agents, with a tie among the agents shown and an agent of
\* larger total loaded after a smaller one
C11_Witness ==
    /\ AgentCharted
    /\ Len(result.before[2].items) > TopAgents
    /\ LET list == result.before[2].items
           values == charts.agentChart.datasets[1].items
       IN  /\ \E p \in 1..(Len(values) - 1) : values[p] = values[p + 1]
           /\ \E i, j \in DOMAIN list : i < j /\ list[i].total < list[j].total

\* the dataset an operation of updateCharts reads, by its place in this.data
DatasetOf(operation) ==
    CASE operation = "updateOverviewChart" -> 1
      [] operation = "updateAgentChart" -> 2
      [] operation = "updateNetworkChart" -> 3
      [] operation = "updateTopicChart" -> 4
      [] operation = "updateTrendChart" -> 5
      [] operation = "createTimelineChart" -> 6

ChartOperations ==
    {"updateOverviewChart", "updateAgentChart", "updateNetworkChart", "updateTopicChart",
     "updateTrendChart", "createTimelineChart"}

\* a dataset that is null, or that holds no element: an empty array, a network
\* without nodes, a timeline without goals
AbsentOrEmpty(v) ==
    \/ ~Truthy(v)
    \/ IsArray(v) /\ v.items = <<>>
    \/ /\ v.kind = "object"
       /\ "nodes" \in DOMAIN v
       /\ IsArray(v.nodes)
       /\ v.nodes.items = <<>>
    \/ /\ v.kind = "object"
       /\ "goals" \in DOMAIN v
       /\ (IF IsArray(v.goals) THEN v.goals.items = <<>> ELSE ~Truthy(v.goals))

\* C12: an operation of updateCharts (overview, agent, network, topic, trend,
\* timeline) called with its dataset absent or empty leaves every chart's
\* labels and series as they were and does not throw
C12_NoOpOnAbsentOrEmpty ==
    (applied \in ChartOperations /\ AbsentOrEmpty(result.before[DatasetOf(applied)])) =>
        (charts = InitialCharts /\ ~result.threw)

TimelineCharted == applied = "createTimelineChart" /\ charts.timeline.kind = "chart"

\* the periods of the knowledge index with exactly the goal's two days
MatchingPeriods(knowledge, goal) ==
    IF ~Truthy(knowledge) THEN {}
    ELSE IF ~IsArray(knowledge.timeline_periods) THEN {}
    ELSE {j \in DOMAIN knowledge.timeline_periods.items :
             /\ knowledge.timeline_periods.items[j].start_day = goal.start_day
             /\ knowledge.timeline_periods.items[j].end_day = goal.end_day}

\* the link recorded for a document name: that of the last index entry with
\* the name, or the name itself
RecordedLink(knowledge, name) ==
    IF ~IsArray(knowledge.timecapsule_documents) THEN name
    ELSE LET index == knowledge.timecapsule_documents.items
             named == {j \in DOMAIN index : index[j].name = name}
         IN  IF named = {} THEN name
             ELSE LET last == CHOOSE j \in named : \A k \in named : k <= j
                  IN  IF Truthy(index[last].link) THEN index[last].link ELSE name

\* the names of a period's documents: its own list, else the list the
\* references keep under its id, else none
PeriodDocuments(knowledge, period) ==
    IF Truthy(period.timecapsule_documents) THEN period.timecapsule_documents.items
    ELSE IF ~Truthy(knowledge.references) THEN <<>>
    ELSE IF ~Truthy(knowledge.references.timeline_to_documents) THEN <<>>
    ELSE LET byId == knowledge.references.timeline_to_documents.entries
         IN  IF PropertyKey(period.id) \in DOMAIN byId
             THEN byId[PropertyKey(period.id)].items ELSE <<>>

\* C13: for a goal whose two days equal those of a period, lookupTimecapsuleDocs
\* returns the resolved URLs of that period's documents in their order, the
\* names taken from the period's own list, else from the references under the
\* period's id, else none; for a goal matching no period, or without a
\* knowledge index, it returns the empty list whatever the index holds
C13_PeriodDocuments ==
    TimelineCharted =>
        \A i \in DOMAIN result.before[6].goals.items :
            LET goal == result.before[6].goals.items[i]
                knowledge == result.before[7]
                matching == MatchingPeriods(knowledge, goal)
                returned == charts.timeline.timelineDocs[i]
            IN  IF matching = {} THEN returned = <<>>
                ELSE LET first == CHOOSE j \in matching : \A k \in matching : j <= k
                         names == PeriodDocuments(knowledge,
                                      knowledge.timeline_periods.items[first])
                     IN  returned = [k \in DOMAIN names |->
                             BuildTimecapsuleUrl(RecordedLink(knowledge, names[k]))]

\* a link that carries a network scheme: its scheme separator follows the
\* first chunk
HasNetworkScheme(link) ==
    Len(link.chunks) >= 2 /\ link.chunks[2] \in {"://", "s://"}

\* the normalisation the claim describes
Normalized(link) ==
    IF HasNetworkScheme(link) THEN link ELSE Str(TimecapsuleBase.chunks \o link.chunks)

\* C14: every document name is resolved to its recorded link, or to the name
\* itself, and normalised: a link with a network scheme is returned unchanged,
\* every other link as the base path followed by the link; every URL returned
\* is absolute
C14_AbsoluteUrls ==
    TimelineCharted =>
        \A i \in DOMAIN result.before[6].goals.items :
            LET goal == result.before[6].goals.items[i]
                knowledge == result.before[7]
                matching == MatchingPeriods(knowledge, goal)
                returned == charts.timeline.timelineDocs[i]
            IN  matching # {} =>
                    LET first == CHOOSE j \in matching : \A k \in matching : j <= k
                        names == PeriodDocuments(knowledge,
                                     knowledge.timeline_periods.items[first])
                    IN  /\ \A k \in DOMAIN returned : HasNetworkScheme(returned[k])
                        /\ returned = [k \in DOMAIN names |->
                               Normalized(RecordedLink(knowledge, names[k]))]

----------------------------------------------------------------------------
(* Properties of the page *)

\* the handler's four loads have returned and agents or dailyContributions is null
LoaderMissingInput ==
    /\ loaderPc = "done"
    /\ \A k \in DOMAIN LoaderKeys :
          loaderFetch[k].state = "settled" /\ loaderFetch[k].result.settled = "fulfilled"
    /\ \/ LoaderValue(loaderFetch, 1).kind = "null"
       \/ LoaderValue(loaderFetch, 2).kind = "null"

\* C15: when agents or dailyContributions is absent after loading, the handler
\* writes the 'Metrics unavailable' state to the cards, not 'Data unavailable'.
\* Cards 2 to 4 carry the tag the handler wrote: the updater writes no tag there.
C15_MetricsUnavailable ==
    LoaderMissingInput => \A c \in 2..4 : cards[c].tag = "Metrics unavailable"

\* C16: a refresh cycle of the updater that ended in the error state has
\* overwritten no chart and no metric card with its partial results: the
\* charts are as they were rendered before, and while the other handler has
\* not written the cards their texts are the ones the page shipped
C16_NoHalfUpdate ==
    errorShown =>
        /\ charts = InitialCharts
        /\ loaderPc # "done" => \A c \in Cards : cards[c].strong = InitialCards[c].strong

\* the value and the tag of every card
Texts(cs) == [c \in Cards |-> <<cs[c].strong, cs[c].tag>>]

\* the updater's cycle completes, with its values written, after the handler's
UpdaterCompletesLast ==
    /\ loaderPc = "done"
    /\ updaterPc = "loading"
    /\ updaterPc' = "done"
    /\ UpdateSummaryMetrics(data'[2], data'[1], data'[4], data'[3]).returned = "written"

\* the handler's cycle completes after the updater's
LoaderCompletesLast ==
    /\ updaterPc = "done"
    /\ loaderPc = "awaiting"
    /\ loaderPc' = "done"

\* C17: when the two cycles overlap, the cards end up showing only the results
\* of the cycle that completed last, as if it had run alone on the page as
\* shipped: no value or tag written by the cycle that completed earlier is left
\* next to them
C17_LastCycleWins ==
    [][/\ UpdaterCompletesLast =>
            Texts(cards') = Texts(UpdaterRender(InitialCards, data'))
       /\ LoaderCompletesLast =>
            Texts(cards') = Texts(HandlerRender(InitialCards,
                                      LoaderValue(loaderFetch', 1), LoaderValue(loaderFetch', 2),
                                      LoaderValue(loaderFetch', 3), LoaderValue(loaderFetch', 4)))
      ]_vars

----------------------------------------------------------------------------
(* The two summary computations compared *)

\* what the handler of the DataLoader writes for the loaded datasets
HandlerCards ==
    HandlerRender(InitialCards, agents, dailyContributions, topics, collaborationNetwork)

\* C18: for the same loaded datasets the texts updateSummaryMetrics writes to
\* cards 1 to 4 and to the trend tag are the texts the handler of the
\* DataLoader writes from calculateSummaryMetrics
C18_ComputationsAgree ==
    (/\ applied = "updateSummaryMetrics"
     /\ result.returned = "written"
     /\ MetricsAvailable) =>
        /\ \A c \in 1..4 : result.strong[c] = HandlerCards[c].strong
        /\ result.weekly.label = HandlerCards[1].tag

----------------------------------------------------------------------------
(* Progress of a page load *)

\* a deployment that serves the daily, agent and trend datasets, the trends
\* as an object, and none of the others
LiveSites ==
    {[Site(ScenarioDaily, ScenarioAgents, Null, Null)
         EXCEPT !["historical_trends.json"] = TrendsObject,
                !["village_timeline.json"] = Null]}

InitLive ==
    /\ files \in LiveSites
    /\ RequestIdle
    /\ PageIdle
    /\ MetricsIdle

\* the browser dispatches DOMContentLoaded to both handlers and every fetch in
\* flight settles: a step that is enabled is eventually taken (no step of the
\* page disables another)
SpecLive == InitLive /\ [][Next]_vars /\ WF_vars(Next)

NoLoading == ~panelsLoading /\ \A c \in Cards : ~cards[c].loading

\* C19: provided every fetch settles, the page load reaches a state in which no
\* metric card and no panel carries 'loading', and stays so, whichever fetches
\* fail, whether or not the update throws, under every interleaving of the two
\* handlers
C19_LoadingEnds == <>[]NoLoading

\* both cycles have ended, the updater's in the error state after an exception
\* and the handler's after a failed fetch, and nothing is loading
C19_Witness ==
    /\ loaderPc = "done"
    /\ updaterPc = "done"
    /\ errorShown
    /\ \E c \in Cards : cards[c].tag = "Data unavailable"
    /\ NoLoading

====
